---- MODULE Spec2Model ----
(***************************************************************************)
(* Monte Carlo dropout uncertainty estimation, as performed by the         *)
(* notebook chapter10/fashionMNIST_dropout_for_detection.ipynb.            *)
(*                                                                         *)
(* The notebook is a straight-line program: it generates adversarial       *)
(* images, recomputes num_images, calls the dropout model L times on the   *)
(* clean and on the adversarial batch, stores the outputs in two           *)
(* (L, num_images, num_classes) tensors and reduces every image's L        *)
(* prediction vectors to one score with uncertainty().                     *)
(*                                                                         *)
(* Numbers.  numpy computes in binary floating point (float64): every      *)
(* operation returns the exact result rounded to the nearest representable *)
(* value, ties to even.  The model keeps that behaviour and scales the     *)
(* significand down from 53 bits to Precision bits; the exponent is        *)
(* unbounded (no overflow or underflow occurs for probabilities).          *)
(***************************************************************************)
EXTENDS Integers, Sequences, FiniteSets, TLC

(***************************************************************************)
(* Bounds of the model.                                                    *)
(***************************************************************************)
\* significand bits of the floating-point format (float64 has 53)
Precision == 7
\* prediction vectors have components k / 2^GridBits
GridBits == 3
\* number of classes (the notebook uses 10)
num_classes == 2
\* largest num_images requested (the notebook requests 1000)
MaxImages == 2
\* largest L of a whole notebook run (the notebook uses 100)
MaxPasses == 2
\* largest L of a reduction started from an arbitrary filled tensor
MaxSamples == 3

Grid == 2 ^ GridBits

(***************************************************************************)
(* Floating-point numbers: [s, m, e] stands for s * m * 2^e with s the     *)
(* sign (1 or -1), and either m = 0 (zero, written with s = 1, e = 0) or   *)
(* 2^(Precision-1) <= m < 2^Precision.  NaN is a value of its own.         *)
(***************************************************************************)
Zero == [s |-> 1, m |-> 0, e |-> 0]
NaN == [s |-> 0, m |-> 0, e |-> 0]

IsNaN(x) == x.s = 0

RECURSIVE BitLen(_)
\* number of binary digits of n >= 0
BitLen(n) == IF n = 0 THEN 0 ELSE 1 + BitLen(n \div 2)

\* s * n * 2^e (n >= 0 an integer) rounded to Precision significant bits,
\* round-half-to-even: the rounding every IEEE-754 operation performs.
Round(s, n, e) ==
    IF n = 0 THEN Zero
    ELSE LET k == BitLen(n) - Precision
         IN IF k <= 0
            THEN [s |-> s, m |-> n * 2 ^ (0 - k), e |-> e + k]
            ELSE LET q == n \div 2 ^ k
                     r == n % 2 ^ k
                     half == 2 ^ (k - 1)
                     up == r > half \/ (r = half /\ q % 2 = 1)
                     q1 == IF up THEN q + 1 ELSE q
                 IN IF q1 = 2 ^ Precision
                    THEN [s |-> s, m |-> 2 ^ (Precision - 1), e |-> e + k + 1]
                    ELSE [s |-> s, m |-> q1, e |-> e + k]

\* the float of the integer ratio k / 2^g
FromRatio(k, g) == Round(1, k, 0 - g)

Neg(x) == IF x.m = 0 \/ IsNaN(x) THEN x ELSE [x EXCEPT !.s = 0 - x.s]

\* x + y, correctly rounded
fadd(x, y) ==
    IF IsNaN(x) \/ IsNaN(y) THEN NaN
    ELSE IF x.m = 0 THEN y
    ELSE IF y.m = 0 THEN x
    ELSE LET hi == IF x.e >= y.e THEN x ELSE y
             lo == IF x.e >= y.e THEN y ELSE x
             d == hi.e - lo.e
         IN IF d >= Precision + 2
            THEN hi   \* lo is below a quarter of hi's last place
            ELSE LET n == hi.s * hi.m * 2 ^ d + lo.s * lo.m
                 IN IF n >= 0 THEN Round(1, n, lo.e) ELSE Round(-1, 0 - n, lo.e)

fsub(x, y) == fadd(x, Neg(y))

\* x * y, correctly rounded
fmul(x, y) ==
    IF IsNaN(x) \/ IsNaN(y) THEN NaN
    ELSE Round(x.s * y.s, x.m * y.m, x.e + y.e)

\* x / n for an integer n >= 0 (n converts to a float exactly), correctly
\* rounded; 0.0 / 0 is NaN as in numpy (a RuntimeWarning, no exception)
fdiv(x, n) ==
    IF IsNaN(x) THEN NaN
    ELSE IF n = 0 THEN NaN
    ELSE IF x.m = 0 THEN Zero
    ELSE LET sh == Precision + 2 + BitLen(n)
             num == x.m * 2 ^ sh
             q == num \div n
             sticky == IF num % n = 0 THEN 0 ELSE 1
         IN Round(x.s, 2 * q + sticky, x.e - sh - 1)

IsNegative(x) == x.s = -1 /\ x.m # 0
IsPositive(x) == x.s = 1 /\ x.m # 0
IsZero(x) == x.s # 0 /\ x.m = 0

(***************************************************************************)
(* numpy operations used by uncertainty().  An array of shape (L, C) is a  *)
(* sequence of L rows, a row a sequence of C floats.                       *)
(***************************************************************************)
RECURSIVE Flatten(_)
\* the elements of a 2-d array in C (row-major) order
Flatten(a) == IF a = <<>> THEN <<>> ELSE Head(a) \o Flatten(Tail(a))

RECURSIVE SumFrom(_, _, _, _)
\* acc + v[from] + v[from + step] + ... (indices <= Len(v)), left to right
SumFrom(acc, v, from, step) ==
    IF from > Len(v) THEN acc
    ELSE SumFrom(fadd(acc, v[from]), v, from + step, step)

\* numpy's pairwise summation of a contiguous 1-d array v of n <= 128
\* elements: a plain loop below 8 elements, otherwise eight running sums
\* over the multiple-of-8 prefix, combined as a tree, then the rest.
np_sum_1d(v) ==
    LET n == Len(v)
    IN IF n < 8 THEN SumFrom(Zero, v, 1, 1)
       ELSE LET full == n - (n % 8)
                head == SubSeq(v, 1, full)
                r == [j \in 1..8 |-> SumFrom(head[j], head, j + 8, 8)]
                tree == fadd(fadd(fadd(r[1], r[2]), fadd(r[3], r[4])),
                             fadd(fadd(r[5], r[6]), fadd(r[7], r[8])))
            IN SumFrom(tree, SubSeq(v, full + 1, n), 1, 1)

\* np.sum(a) of a 2-d array: the sum of all elements
np_sum(a) == np_sum_1d(Flatten(a))

\* np.square(a), elementwise
np_square_1d(v) == [c \in 1..Len(v) |-> fmul(v[c], v[c])]
np_square(a) == [l \in 1..Len(a) |-> np_square_1d(a[l])]

\* a slip: the mean taken along the class axis, np.mean(a, axis=1)
np_mean_axis1(a) ==
    [l \in 1..Len(a) |-> fdiv(np_sum_1d(a[l]), Len(a[l]))]

\* np.mean(a, axis=0): per column, the rows added in order, divided by the
\* row count
np_mean_axis0(a) ==
    [c \in 1..num_classes |->
        fdiv(SumFrom(Zero, [l \in 1..Len(a) |-> a[l][c]], 1, 1), Len(a))]

\* a slip: the score taken from the predicted labels (the one-hot vector of
\* the first largest class) instead of the probabilities
Hardened(v) ==
    LET best == CHOOSE c \in 1..Len(v) :
                    /\ \A d \in 1..Len(v) : ~IsPositive(fsub(v[d], v[c]))
                    /\ \A d \in 1..(c - 1) : IsPositive(fsub(v[c], v[d]))
    IN [c \in 1..Len(v) |-> IF c = best THEN FromRatio(1, 0) ELSE Zero]
uncertainty_of_labels(predictions) ==
    LET labels == [l \in 1..Len(predictions) |-> Hardened(predictions[l])]
    IN fsub(fdiv(np_sum(np_square(labels)), Len(labels)),
            np_sum_1d(np_square_1d(np_mean_axis0(labels))))

\* a slip: the first term not divided by the number of passes
uncertainty_not_averaged(predictions) ==
    fsub(np_sum(np_square(predictions)),
         np_sum_1d(np_square_1d(np_mean_axis0(predictions))))

\* a slip: the first term taken from the first pass only
uncertainty_first_pass(predictions) ==
    fsub(np_sum_1d(np_square_1d(predictions[1])),
         np_sum_1d(np_square_1d(np_mean_axis0(predictions))))

\* def uncertainty(predictions):
\*     return(np.sum(np.square(predictions))/predictions.shape[0]
\*            - np.sum(np.square(np.mean(predictions, axis=0))))
uncertainty(predictions) ==
    fsub(fdiv(np_sum(np_square(predictions)), Len(predictions)),
         np_sum_1d(np_square_1d(np_mean_axis0(predictions))))

(***************************************************************************)
(* Prediction vectors.  ProbVector(k) puts k/Grid on class 1 and the rest  *)
(* of the mass on class 2: non-negative components that sum to exactly 1,  *)
(* each exactly representable.                                             *)
(***************************************************************************)
Numerators(k) == [c \in 1..num_classes |->
                    IF c = 1 THEN k ELSE IF c = 2 THEN Grid - k ELSE 0]
ProbVector(k) == [c \in 1..num_classes |-> FromRatio(Numerators(k)[c], GridBits)]

(***************************************************************************)
(* Images, dropout masks and the trained network.                          *)
(*                                                                         *)
(* test_images[j] is the image j; the adversarial image made from image j  *)
(* is -j.  Dropout(0.2)(x, training=True) draws a fresh random mask tensor *)
(* (a row of 56 bits per image of the batch) on every forward pass; the    *)
(* model tells two mask tensors apart, "keep" and "drop".  The trained     *)
(* weights are data, not source: the variable model holds the network's    *)
(* response, the numerator k of ProbVector(k), to every image under every  *)
(* mask, and never changes.                                                *)
(***************************************************************************)
test_images == [j \in 1..MaxImages |-> j]
Perturb(img) == 0 - img
Images == {j : j \in 1..MaxImages} \cup {Perturb(j) : j \in 1..MaxImages}
Masks == {"keep", "drop"}

\* what is not assigned yet (a Python name that does not exist yet)
Undefined == "undefined"

VARIABLES
    pc,                       \* the statement the notebook executes next
    model,                    \* the trained network (its response table)
    num_images,               \* num_images
    L,                        \* L, the number of passes
    x_images,                 \* the clean batch
    x_images_adv,             \* the adversarial batch
    predictions,              \* result of the last model.predict(x_images)
    predictions_adv,          \* result of the last model.predict(x_images_adv)
    predictions_matrix,       \* (L, num_images, num_classes) tensor, clean
    predictions_matrix_adv,   \* (L, num_images, num_classes) tensor, adversarial
    i,                        \* the loop variable of the running for loop
    uncertainty_results,      \* scores of the clean batch
    uncertainty_results_adv,  \* scores of the adversarial batch
    raised,                   \* the exception that ended the run, or "none"
    predict_calls             \* history: every model.predict call made

vars == <<pc, model, num_images, L, x_images, x_images_adv, predictions,
          predictions_adv, predictions_matrix, predictions_matrix_adv, i,
          uncertainty_results, uncertainty_results_adv, raised, predict_calls>>

\* a slip: an output activation that does not normalise over the classes
Unnormalised(k) == [c \in 1..num_classes |-> FromRatio(k, GridBits)]

\* x = Dense(56, relu)(Flatten(inputs)); x = Dropout(0.2)(x, training=True);
\* x = Dense(56, relu)(x); predictions = Dense(10, softmax)(x):
\* the output row of the network for one image under one dropout mask.  The
\* softmax layer makes every row a probability vector.
Softmax(k) == ProbVector(k)
Forward(img, mask) == Softmax(model[img][mask])

\* model.predict(batch) with the dropout mask `mask`: one row per image
Predict(batch, mask) == [j \in 1..Len(batch) |-> Forward(batch[j], mask)]

\* a slip: the layer called without training=True, dropout idle at inference
InferenceMasks == {"keep"}

\* the masks a call of model.predict can draw: the Dropout layer is built
\* with training=True, so it samples at inference time as well
DropoutMasks == Masks

\* np.zeros(shape)
np_zeros_1d(n) == [j \in 1..n |-> Zero]
np_zeros_3d(l, n, c) == [a \in 1..l |-> [b \in 1..n |-> np_zeros_1d(c)]]

\* predictions_matrix[:, j] for the 0-based image index j
Column(matrix, j) == [l \in 1..Len(matrix) |-> matrix[l][j + 1]]

\* the weights that training produced for the notebook run
Response(img, mask) ==
    (3 * (IF img > 0 THEN img ELSE 1 - img) + (IF mask = "drop" THEN 2 ELSE 0))
        % (Grid + 1)
TrainedModel == [img \in Images |-> [mask \in Masks |-> Response(img, mask)]]

(***************************************************************************)
(* The notebook from "Get some test data" on.                              *)
(***************************************************************************)
\* num_images = 1000 (cell 9); L = 100 (cell 14) is a parameter of the run
Init ==
    /\ pc = "generate"
    /\ model = TrainedModel
    /\ num_images \in 1..MaxImages
    /\ L \in 0..MaxPasses
    /\ x_images = Undefined
    /\ x_images_adv = Undefined
    /\ predictions = Undefined
    /\ predictions_adv = Undefined
    /\ predictions_matrix = Undefined
    /\ predictions_matrix_adv = Undefined
    /\ i = Undefined
    /\ uncertainty_results = Undefined
    /\ uncertainty_results_adv = Undefined
    /\ raised = "none"
    /\ predict_calls = <<>>

Call(site, batch, mask) ==
    [site |-> site, input |-> batch, mask |-> mask, output |-> Predict(batch, mask)]

RECURSIVE Successes(_, _)
\* the perturbed images of the originals whose index is in ok, in order
Successes(originals, ok) ==
    IF originals = <<>> THEN <<>>
    ELSE LET n == Len(originals)
             rest == Successes(SubSeq(originals, 1, n - 1), ok)
         IN IF n \in ok THEN Append(rest, Perturb(originals[n])) ELSE rest

\* generate_adversarial_data(original_images, predictions, attack_fn): the
\* perturbed images of those originals the attack succeeded on
generate_adversarial_data(original_images, ok) == Successes(original_images, ok)

\* x_images = test_images[0:num_images, :]
\* (x_images_adv, _, _) = generate_adversarial_data(original_images = x_images,
\*     predictions = model.predict(x_images), attack_fn = attack_fn)
GenerateAdversarial ==
    /\ pc = "generate"
    /\ \E mask \in DropoutMasks, ok \in SUBSET (1..num_images) :
          LET batch == SubSeq(test_images, 1, num_images)
          IN /\ x_images' = batch
             /\ predict_calls' = Append(predict_calls, Call("generate", batch, mask))
             /\ x_images_adv' = generate_adversarial_data(batch, ok)
    /\ pc' = "recount"
    /\ UNCHANGED <<model, num_images, L, predictions, predictions_adv,
                   predictions_matrix, predictions_matrix_adv, i,
                   uncertainty_results, uncertainty_results_adv, raised>>

\* a slip: the requested count kept, the returned count not re-read
Recount_not_reread ==
    /\ pc = "recount"
    /\ num_images' = num_images
    /\ x_images' = SubSeq(test_images, 1, num_images)
    /\ pc' = "allocate"
    /\ UNCHANGED <<model, L, x_images_adv, predictions, predictions_adv,
                   predictions_matrix, predictions_matrix_adv, i,
                   uncertainty_results, uncertainty_results_adv, raised,
                   predict_calls>>

\* a slip: the clean batch not cut down to the recomputed count
Recount_not_truncated ==
    /\ pc = "recount"
    /\ num_images' = Len(x_images_adv)
    /\ pc' = "allocate"
    /\ UNCHANGED <<model, L, x_images, x_images_adv, predictions, predictions_adv,
                   predictions_matrix, predictions_matrix_adv, i,
                   uncertainty_results, uncertainty_results_adv, raised,
                   predict_calls>>

\* num_images = x_images_adv.shape[0]
\* x_images = test_images[:num_images]
Recount ==
    /\ pc = "recount"
    /\ num_images' = Len(x_images_adv)
    /\ x_images' = SubSeq(test_images, 1, Len(x_images_adv))
    /\ pc' = "allocate"
    /\ UNCHANGED <<model, L, x_images_adv, predictions, predictions_adv,
                   predictions_matrix, predictions_matrix_adv, i,
                   uncertainty_results, uncertainty_results_adv, raised,
                   predict_calls>>

\* a slip: the sampling loop written "for i in range(1, L)"
Allocate_from_one ==
    /\ pc = "allocate"
    /\ predictions_matrix' = np_zeros_3d(L, num_images, num_classes)
    /\ predictions_matrix_adv' = np_zeros_3d(L, num_images, num_classes)
    /\ i' = 1
    /\ pc' = IF 1 < L THEN "predict" ELSE "allocate_results"
    /\ UNCHANGED <<model, num_images, L, x_images, x_images_adv, predictions,
                   predictions_adv, uncertainty_results,
                   uncertainty_results_adv, raised, predict_calls>>

\* predictions_matrix = np.zeros((L, num_images, num_classes))
\* predictions_matrix_adv = np.zeros((L, num_images, num_classes))
\* for i in range(L):
Allocate ==
    /\ pc = "allocate"
    /\ predictions_matrix' = np_zeros_3d(L, num_images, num_classes)
    /\ predictions_matrix_adv' = np_zeros_3d(L, num_images, num_classes)
    /\ i' = 0
    /\ pc' = IF 0 < L THEN "predict" ELSE "allocate_results"
    /\ UNCHANGED <<model, num_images, L, x_images, x_images_adv, predictions,
                   predictions_adv, uncertainty_results,
                   uncertainty_results_adv, raised, predict_calls>>

\* the outcomes of model.predict(batch): the invocation is made in every
\* case; what Keras does with a batch of no images is library behaviour the
\* notebook does not pin down, so it may return no rows or raise
PredictOutcome(site, batch, result, next) ==
    \E mask \in DropoutMasks :
       /\ predict_calls' = Append(predict_calls, Call(site, batch, mask))
       /\ \/ /\ result' = Predict(batch, mask)
             /\ pc' = next
             /\ raised' = raised
          \/ /\ Len(batch) = 0
             /\ result' = result
             /\ pc' = "raised"
             /\ raised' = "ValueError"

\*     predictions = model.predict(x_images)
PredictClean ==
    /\ pc = "predict"
    /\ PredictOutcome("clean", x_images, predictions, "predict_adv")
    /\ UNCHANGED <<model, num_images, L, x_images, x_images_adv,
                   predictions_adv, predictions_matrix, predictions_matrix_adv,
                   i, uncertainty_results, uncertainty_results_adv>>

\*     predictions_adv = model.predict(x_images_adv)
PredictAdv ==
    /\ pc = "predict_adv"
    /\ PredictOutcome("adv", x_images_adv, predictions_adv, "store")
    /\ UNCHANGED <<model, num_images, L, x_images, x_images_adv, predictions,
                   predictions_matrix, predictions_matrix_adv, i,
                   uncertainty_results, uncertainty_results_adv>>

\* a slip: "predictions_matrix[0] = predictions"
StoreClean_first_slice ==
    /\ pc = "store"
    /\ predictions_matrix' = [predictions_matrix EXCEPT ![1] = predictions]
    /\ pc' = "store_adv"
    /\ UNCHANGED <<model, num_images, L, x_images, x_images_adv, predictions,
                   predictions_adv, predictions_matrix_adv, i,
                   uncertainty_results, uncertainty_results_adv, raised,
                   predict_calls>>

\*     predictions_matrix[i] = predictions
StoreClean ==
    /\ pc = "store"
    /\ predictions_matrix' = [predictions_matrix EXCEPT ![i + 1] = predictions]
    /\ pc' = "store_adv"
    /\ UNCHANGED <<model, num_images, L, x_images, x_images_adv, predictions,
                   predictions_adv, predictions_matrix_adv, i,
                   uncertainty_results, uncertainty_results_adv, raised,
                   predict_calls>>

\* a slip: the sampling loop left one pass early
StoreAdv_one_short ==
    /\ pc = "store_adv"
    /\ predictions_matrix_adv' =
          [predictions_matrix_adv EXCEPT ![i + 1] = predictions_adv]
    /\ i' = i + 1
    /\ pc' = IF i + 1 < L - 1 THEN "predict" ELSE "allocate_results"
    /\ UNCHANGED <<model, num_images, L, x_images, x_images_adv, predictions,
                   predictions_adv, predictions_matrix, uncertainty_results,
                   uncertainty_results_adv, raised, predict_calls>>

\* a slip: the clean predictions stored in the adversarial tensor
StoreAdv_copied ==
    /\ pc = "store_adv"
    /\ predictions_matrix_adv' =
          [predictions_matrix_adv EXCEPT ![i + 1] = predictions]
    /\ i' = i + 1
    /\ pc' = IF i + 1 < L THEN "predict" ELSE "allocate_results"
    /\ UNCHANGED <<model, num_images, L, x_images, x_images_adv, predictions,
                   predictions_adv, predictions_matrix, uncertainty_results,
                   uncertainty_results_adv, raised, predict_calls>>

\*     predictions_matrix_adv[i] = predictions_adv
\* and the next round of "for i in range(L)"
StoreAdv ==
    /\ pc = "store_adv"
    /\ predictions_matrix_adv' =
          [predictions_matrix_adv EXCEPT ![i + 1] = predictions_adv]
    /\ i' = i + 1
    /\ pc' = IF i + 1 < L THEN "predict" ELSE "allocate_results"
    /\ UNCHANGED <<model, num_images, L, x_images, x_images_adv, predictions,
                   predictions_adv, predictions_matrix, uncertainty_results,
                   uncertainty_results_adv, raised, predict_calls>>

\* uncertainty_results = np.zeros((num_images))
\* uncertainty_results_adv = np.zeros((num_images))
\* for i in range(num_images):
AllocateResults ==
    /\ pc = "allocate_results"
    /\ uncertainty_results' = np_zeros_1d(num_images)
    /\ uncertainty_results_adv' = np_zeros_1d(num_images)
    /\ i' = 0
    /\ pc' = IF 0 < num_images THEN "reduce" ELSE "done"
    /\ UNCHANGED <<model, num_images, L, x_images, x_images_adv, predictions,
                   predictions_adv, predictions_matrix, predictions_matrix_adv,
                   raised, predict_calls>>

\* a slip: the clean score computed from the adversarial tensor
ReduceClean_other_tensor ==
    /\ pc = "reduce"
    /\ uncertainty_results' =
          [uncertainty_results EXCEPT
              ![i + 1] = uncertainty(Column(predictions_matrix_adv, i))]
    /\ pc' = "reduce_adv"
    /\ UNCHANGED <<model, num_images, L, x_images, x_images_adv, predictions,
                   predictions_adv, predictions_matrix, predictions_matrix_adv,
                   i, uncertainty_results_adv, raised, predict_calls>>

\*     uncertainty_results[i] = uncertainty(predictions_matrix[:,i])
ReduceClean ==
    /\ pc = "reduce"
    /\ uncertainty_results' =
          [uncertainty_results EXCEPT
              ![i + 1] = uncertainty(Column(predictions_matrix, i))]
    /\ pc' = "reduce_adv"
    /\ UNCHANGED <<model, num_images, L, x_images, x_images_adv, predictions,
                   predictions_adv, predictions_matrix, predictions_matrix_adv,
                   i, uncertainty_results_adv, raised, predict_calls>>

\* a slip: the reduction loop written "for i in range(num_images - 1)"
ReduceAdv_one_short ==
    /\ pc = "reduce_adv"
    /\ uncertainty_results_adv' =
          [uncertainty_results_adv EXCEPT
              ![i + 1] = uncertainty(Column(predictions_matrix_adv, i))]
    /\ i' = i + 1
    /\ pc' = IF i + 1 < num_images - 1 THEN "reduce" ELSE "done"
    /\ UNCHANGED <<model, num_images, L, x_images, x_images_adv, predictions,
                   predictions_adv, predictions_matrix, predictions_matrix_adv,
                   uncertainty_results, raised, predict_calls>>

\*     uncertainty_results_adv[i] = uncertainty(predictions_matrix_adv[:,i])
\* and the next round of "for i in range(num_images)"
ReduceAdv ==
    /\ pc = "reduce_adv"
    /\ uncertainty_results_adv' =
          [uncertainty_results_adv EXCEPT
              ![i + 1] = uncertainty(Column(predictions_matrix_adv, i))]
    /\ i' = i + 1
    /\ pc' = IF i + 1 < num_images THEN "reduce" ELSE "done"
    /\ UNCHANGED <<model, num_images, L, x_images, x_images_adv, predictions,
                   predictions_adv, predictions_matrix, predictions_matrix_adv,
                   uncertainty_results, raised, predict_calls>>

Next ==
    \/ GenerateAdversarial
    \/ Recount
    \/ Allocate
    \/ PredictClean
    \/ PredictAdv
    \/ StoreClean
    \/ StoreAdv
    \/ AllocateResults
    \/ ReduceClean
    \/ ReduceAdv

Spec == Init /\ [][Next]_vars

(***************************************************************************)
(* The reduction on its own: the notebook at the end of the sampling loop  *)
(* of a run on one image, for every network that answers the image with   *)
(* one of two prediction vectors v, w (the adversarial image with w, v),   *)
(* and every sequence of masks the L passes may have drawn.                *)
(***************************************************************************)
TwoResponseModel(v, w) ==
    [img \in Images |->
        [mask \in Masks |-> IF (img > 0) = (mask = "keep") THEN v ELSE w]]

RECURSIVE SampledCalls(_, _)
\* the calls of passes 1..l of the sampling loop drawing the masks pat
SampledCalls(pat, l) ==
    IF l = 0 THEN <<>>
    ELSE SampledCalls(pat, l - 1)
            \o <<Call("clean", <<test_images[1]>>, pat[l]),
                 Call("adv", <<Perturb(test_images[1])>>, pat[l])>>

InitReduction ==
    /\ pc = "allocate_results"
    /\ L \in 1..MaxSamples
    /\ num_images = 1
    /\ x_images = <<test_images[1]>>
    /\ x_images_adv = <<Perturb(test_images[1])>>
    /\ \E v \in 0..Grid, w \in 0..Grid : model = TwoResponseModel(v, w)
    /\ \E pat \in [1..L -> Masks] :
          /\ predictions_matrix = [l \in 1..L |-> Predict(x_images, pat[l])]
          /\ predictions_matrix_adv = [l \in 1..L |-> Predict(x_images_adv, pat[l])]
          /\ predict_calls =
                <<Call("generate", x_images, "keep")>> \o SampledCalls(pat, L)
    /\ predictions = predictions_matrix[L]
    /\ predictions_adv = predictions_matrix_adv[L]
    /\ i = L
    /\ uncertainty_results = Undefined
    /\ uncertainty_results_adv = Undefined
    /\ raised = "none"

NextReduction ==
    \/ AllocateResults
    \/ ReduceClean
    \/ ReduceAdv

SpecReduction == InitReduction /\ [][NextReduction]_vars

(***************************************************************************)
(* The scores computed so far, each with the L prediction vectors it was   *)
(* computed from.                                                          *)
(***************************************************************************)
CleanComputed ==
    IF pc = "reduce_adv" THEN i + 1
    ELSE IF pc \in {"reduce", "done"} THEN i ELSE 0

AdvComputed == IF pc \in {"reduce", "reduce_adv", "done"} THEN i ELSE 0

ComputedScores ==
    {[score |-> uncertainty_results[j],
      vectors |-> Column(predictions_matrix, j - 1)] : j \in 1..CleanComputed}
    \cup
    {[score |-> uncertainty_results_adv[j],
      vectors |-> Column(predictions_matrix_adv, j - 1)] : j \in 1..AdvComputed}

(***************************************************************************)
(* The reference value of the dispersion formula in exact arithmetic.  A   *)
(* prediction is a multiple k / Grid; with S the sum of all k^2 and M[c]   *)
(* the sum of class c over the passes,                                     *)
(*    (1/L) sum ||p_l||^2 - ||(1/L) sum p_l||^2                            *)
(*       = (L * S - sum_c M[c]^2) / (L^2 * Grid^2).                        *)
(***************************************************************************)
ToGrid(x) ==
    IF x.m = 0 THEN 0
    ELSE IF x.e + GridBits >= 0
         THEN x.s * x.m * 2 ^ (x.e + GridBits)
         ELSE x.s * (x.m \div 2 ^ (0 - (x.e + GridBits)))

OnGrid(p) ==
    \A l \in 1..Len(p) : \A c \in 1..Len(p[l]) :
        /\ ~IsNaN(p[l][c])
        /\ FromRatio(ToGrid(p[l][c]), GridBits) = p[l][c]

RECURSIVE SumInt(_, _)
SumInt(f, n) == IF n = 0 THEN 0 ELSE f[n] + SumInt(f, n - 1)

Classes(p) == Len(p[1])
ClassSum(p, c) == SumInt([l \in 1..Len(p) |-> ToGrid(p[l][c])], Len(p))
SquareSum(p) ==
    SumInt([l \in 1..Len(p) |->
               SumInt([c \in 1..Classes(p) |-> ToGrid(p[l][c]) * ToGrid(p[l][c])],
                      Classes(p))], Len(p))
MeanSquare(p) ==
    SumInt([c \in 1..Classes(p) |-> ClassSum(p, c) * ClassSum(p, c)], Classes(p))

\* numerators over the common denominator RefDen of: the mean squared norm,
\* the squared norm of the mean, and their difference, the reference value
EnergyNum(p) == Len(p) * SquareSum(p)
RefNum(p) == EnergyNum(p) - MeanSquare(p)
RefDen(p) == Len(p) * Len(p) * Grid * Grid

\* L^3 * Grid^2 times the sum over the classes of the population variance
\* (the mean squared deviation from the mean) of the class over the passes
VarianceNum(p) ==
    SumInt([c \in 1..Classes(p) |->
               SumInt([l \in 1..Len(p) |->
                          (Len(p) * ToGrid(p[l][c]) - ClassSum(p, c))
                             * (Len(p) * ToGrid(p[l][c]) - ClassSum(p, c))],
                      Len(p))], Classes(p))

(***************************************************************************)
(* Rounding tolerance.  Every operation is correctly rounded, with        *)
(* relative error at most 2^-Precision.  The mean squared norm passes      *)
(* through at most L*C + 2 roundings and the squared norm of the mean      *)
(* through at most 2*L + C + 1, in whatever order the sums are taken, so   *)
(* the computed score x differs from the reference value by at most        *)
(*    K / (2^Precision - K) * (mean squared norm + squared norm of mean),  *)
(* K being the larger count.  The comparison is made in integers.          *)
(***************************************************************************)
Roundings(p) ==
    IF Len(p) * Classes(p) + 2 >= 2 * Len(p) + Classes(p) + 1
    THEN Len(p) * Classes(p) + 2
    ELSE 2 * Len(p) + Classes(p) + 1

RECURSIVE OddForm(_, _)
\* m * 2^e with m odd
OddForm(m, e) ==
    IF m = 0 THEN <<0, 0>>
    ELSE IF m % 2 = 0 THEN OddForm(m \div 2, e + 1) ELSE <<m, e>>

\* x as a fraction Num / 2^Shift
Shift(x) == IF OddForm(x.m, x.e)[2] < 0 THEN 0 - OddForm(x.m, x.e)[2] ELSE 0
Num(x) ==
    IF OddForm(x.m, x.e)[2] < 0 THEN x.s * OddForm(x.m, x.e)[1]
    ELSE x.s * OddForm(x.m, x.e)[1] * 2 ^ OddForm(x.m, x.e)[2]

Abs(n) == IF n < 0 THEN 0 - n ELSE n
Max(a, b) == IF a >= b THEN a ELSE b

\* |x - y| <= times * tolerance(p)
Within(x, y, times, p) ==
    /\ ~IsNaN(x)
    /\ ~IsNaN(y)
    /\ 2 ^ Precision > Roundings(p)
    /\ LET sh == Max(Shift(x), Shift(y))
           d == Num(x) * 2 ^ (sh - Shift(x)) - Num(y) * 2 ^ (sh - Shift(y))
       IN Abs(d) * RefDen(p) * (2 ^ Precision - Roundings(p))
             <= times * Roundings(p) * (EnergyNum(p) + MeanSquare(p)) * 2 ^ sh

\* |x - RefNum(p) / RefDen(p)| <= tolerance(p)
NearReference(x, p) ==
    /\ ~IsNaN(x)
    /\ 2 ^ Precision > Roundings(p)
    /\ Abs(Num(x) * RefDen(p) - RefNum(p) * 2 ^ Shift(x))
          * (2 ^ Precision - Roundings(p))
          <= Roundings(p) * (EnergyNum(p) + MeanSquare(p)) * 2 ^ Shift(x)

Identical(p) == \A l \in 1..Len(p) : p[l] = p[1]
One == FromRatio(1, 0)
Half == FromRatio(1, 1)
OneHot(v) == \E c \in 1..Len(v) : \A d \in 1..Len(v) : v[d] = IF d = c THEN One ELSE Zero

Orders(n) == {f \in [1..n -> 1..n] : \A a \in 1..n : \E b \in 1..n : f[b] = a}
Permute(p, f) == [l \in 1..Len(p) |-> p[f[l]]]
\* the tensors that reordering the passes of p gives
Reorderings(p) == {Permute(p, f) : f \in Orders(Len(p))}

(***************************************************************************)
(* Claims about the reduction, checked under SpecReduction.                *)
(***************************************************************************)

\* C1 (as claimed): for L >= 2 valid probability vectors of one image the
\* score computed by uncertainty is >= 0, so every entry of the clean and of
\* the adversarial score sequence is non-negative.
C1_ScoresNonNegative ==
    \A r \in ComputedScores :
        Len(r.vectors) >= 2 => IsZero(r.score) \/ IsPositive(r.score)

\* C2 (as claimed): the score of an image is 0 if and only if its L
\* prediction vectors are all identical: identical vectors give exactly 0,
\* vectors of which two differ give a score strictly greater than 0.
C2_ZeroIffIdentical ==
    \A r \in ComputedScores :
        /\ Identical(r.vectors) => IsZero(r.score)
        /\ ~Identical(r.vectors) => IsPositive(r.score)

\* C2 (amended): the reference value of the score is 0 if and only if the L
\* vectors are identical, and the computed score is within the rounding
\* tolerance of it: identical vectors give a score within the tolerance of
\* 0, exactly 0 when the vectors are one-hot such as [1,0,0,...]; vectors of
\* which two differ have a strictly positive reference value, but their
\* computed score may be zero or negative within the tolerance.
C2_ZeroIffIdenticalUpToRounding ==
    \A r \in ComputedScores :
        /\ OnGrid(r.vectors)
        /\ RefNum(r.vectors) >= 0
        /\ Identical(r.vectors) <=> RefNum(r.vectors) = 0
        /\ NearReference(r.score, r.vectors)
        /\ Identical(r.vectors) /\ OneHot(r.vectors[1]) => IsZero(r.score)

\* C2 witness: a score was computed from three identical vectors that are
\* not one-hot, and it is not zero.
C2_IdenticalNotZero ==
    \E r \in ComputedScores :
        /\ Len(r.vectors) = 3
        /\ Identical(r.vectors)
        /\ ~OneHot(r.vectors[1])
        /\ ~IsZero(r.score)

\* C3 (as claimed): the score of an image is unchanged by any reordering of
\* its L passes along the first axis of the prediction tensor.
C3_PermutationInvariant ==
    \A r \in ComputedScores :
        \A q \in Reorderings(r.vectors) : uncertainty(q) = r.score

\* C3 (amended): reordering the L passes of an image leaves the reference
\* value of its score unchanged and changes the computed score by at most
\* twice the rounding tolerance.
C3_PermutationInvariantUpToRounding ==
    \A r \in ComputedScores :
        \A q \in Reorderings(r.vectors) :
            /\ RefNum(q) = RefNum(r.vectors)
            /\ Within(uncertainty(q), r.score, 2, r.vectors)

\* C3 witness: a score was computed from three passes, and one reordering
\* of them gives a different score.
C3_ReorderedScoreDiffers ==
    \E r \in ComputedScores :
        /\ Len(r.vectors) = 3
        /\ \E q \in Reorderings(r.vectors) : uncertainty(q) # r.score

\* the floating-point number nearest to n / d
Nearest(n, d) ==
    IF n = 0 THEN Zero
    ELSE LET sh == Max(0, Precision + 3 + BitLen(d) - BitLen(Abs(n)))
             q == (Abs(n) * 2 ^ sh) \div d
             sticky == IF (Abs(n) * 2 ^ sh) % d = 0 THEN 0 ELSE 1
         IN Round(IF n < 0 THEN -1 ELSE 1, 2 * q + sticky, 0 - sh - 1)

\* C4 (as claimed): the computed score equals the reference formula
\* (1/L) sum ||p_l||^2 - ||(1/L) sum p_l||^2, which equals the sum over the
\* classes of the population variance of the class across the L passes; the
\* passes [1,0], [0,1] give 0.5.  A floating-point score equals a real value
\* when it is the floating-point number nearest to it.
C4_EqualsReference ==
    \A r \in ComputedScores :
        /\ r.score = Nearest(RefNum(r.vectors), RefDen(r.vectors))
        /\ Len(r.vectors) * RefNum(r.vectors) = VarianceNum(r.vectors)
        /\ r.vectors = <<<<One, Zero>>, <<Zero, One>>>> => r.score = Half

\* C4 (amended): the computed score is within the rounding tolerance of the
\* reference formula, which equals the sum over the classes of the
\* population variance of the class across the L passes; the passes [1,0],
\* [0,1] give exactly 0.5.
C4_NearReference ==
    \A r \in ComputedScores :
        /\ OnGrid(r.vectors)
        /\ NearReference(r.score, r.vectors)
        /\ Len(r.vectors) * RefNum(r.vectors) = VarianceNum(r.vectors)
        /\ r.vectors = <<<<One, Zero>>, <<Zero, One>>>> => r.score = Half

\* C4 witness: the score of the passes [1,0], [0,1] has been computed and
\* is 0.5.
C4_ExampleComputed ==
    \E r \in ComputedScores :
        r.vectors = <<<<One, Zero>>, <<Zero, One>>>> /\ r.score = Half

(***************************************************************************)
(* Claims about the whole run, checked under Spec.                         *)
(***************************************************************************)
IsCleanCall(c) == c.site = "clean"
IsAdvCall(c) == c.site = "adv"
\* the calls the sampling loop has made for the clean and for the
\* adversarial batch, in order
CleanCalls == SelectSeq(predict_calls, IsCleanCall)
AdvCalls == SelectSeq(predict_calls, IsAdvCall)

Counted == pc \notin {"generate", "recount"}
Sampled == pc \in {"allocate_results", "reduce", "reduce_adv", "done"}
Terminated == pc \in {"done", "raised"}
\* the two score sequences exist (cell 16 has allocated them)
ScoresProduced == pc \in {"reduce", "reduce_adv", "done"}

IsProbabilityVector(v) ==
    /\ \A c \in 1..Len(v) : IsZero(v[c]) \/ IsPositive(v[c])
    /\ np_sum_1d(v) = One

\* the passes of the clean and of the adversarial tensor written so far
CleanStored ==
    IF Sampled THEN L
    ELSE IF pc = "store_adv" THEN i + 1
    ELSE IF pc \in {"predict", "predict_adv", "store", "raised"} THEN i ELSE 0

AdvStored ==
    IF Sampled THEN L
    ELSE IF pc \in {"predict", "predict_adv", "store", "store_adv", "raised"}
         THEN i ELSE 0

C8_NoPartialResults ==
    /\ pc = "done" =>
          /\ Len(uncertainty_results) = num_images
          /\ Len(uncertainty_results_adv) = num_images
          /\ CleanComputed = num_images
          /\ AdvComputed = num_images
          /\ \A j \in 1..num_images :
                /\ Len(Column(predictions_matrix, j - 1)) = L
                /\ uncertainty_results[j]
                      = uncertainty(Column(predictions_matrix, j - 1))
                /\ uncertainty_results_adv[j]
                      = uncertainty(Column(predictions_matrix_adv, j - 1))
    /\ pc = "raised" =>
          /\ uncertainty_results = Undefined
          /\ uncertainty_results_adv = Undefined

\* C8 witness: a run of two passes over two images has ended with scores of
\* the second image that are not the zero the sequences were allocated with.
C8_AllScoresWritten ==
    /\ pc = "done"
    /\ num_images = 2
    /\ L = 2
    /\ IsPositive(uncertainty_results[2])
    /\ IsPositive(uncertainty_results_adv[2])

\* C9: for each batch the sampling loop calls model.predict exactly L
\* times, every call receives the same full batch of N images, and the
\* results make up a prediction tensor of shape (L, N, C) whose slice [l] is
\* the output of the l-th call.
C9_LPassesOverTheFixedBatch ==
    /\ Len(CleanCalls) <= L
    /\ Len(AdvCalls) <= L
    /\ \A n \in 1..Len(CleanCalls) :
          CleanCalls[n].input = x_images /\ Len(x_images) = num_images
    /\ \A n \in 1..Len(AdvCalls) :
          AdvCalls[n].input = x_images_adv /\ Len(x_images_adv) = num_images
    /\ Sampled =>
          /\ Len(CleanCalls) = L
          /\ Len(AdvCalls) = L
          /\ Len(predictions_matrix) = L
          /\ Len(predictions_matrix_adv) = L
          /\ \A l \in 1..L :
                /\ predictions_matrix[l] = CleanCalls[l].output
                /\ predictions_matrix_adv[l] = AdvCalls[l].output
                /\ Len(predictions_matrix[l]) = num_images
                /\ Len(predictions_matrix_adv[l]) = num_images
                /\ \A j \in 1..num_images :
                      /\ Len(predictions_matrix[l][j]) = num_classes
                      /\ Len(predictions_matrix_adv[l][j]) = num_classes

\* C9 witness: two passes over two images have been sampled, the two
\* passes of each batch returning different predictions.
C9_TwoPassesSampled ==
    /\ Sampled
    /\ L = 2
    /\ num_images = 2
    /\ predictions_matrix[1] # predictions_matrix[2]
    /\ predictions_matrix_adv[1] # predictions_matrix_adv[2]
    /\ predictions_matrix[2] # predictions_matrix_adv[2]

Allocated == pc \notin {"generate", "recount", "allocate"}

\* C11: after the generator has returned its images the count is re-read:
\* num_images is the number of adversarial images, the clean batch is
\* re-sliced to exactly that many images, and from then on both batches,
\* the second dimension of both prediction tensors, every result stored in
\* them and both score sequences have that count.
C11_CountReRead ==
    Counted =>
        /\ num_images = Len(x_images_adv)
        /\ Len(x_images) = num_images
        /\ x_images = SubSeq(test_images, 1, num_images)
        /\ Allocated =>
              /\ \A l \in 1..Len(predictions_matrix) :
                    Len(predictions_matrix[l]) = num_images
              /\ \A l \in 1..Len(predictions_matrix_adv) :
                    Len(predictions_matrix_adv[l]) = num_images
        /\ pc \in {"store", "store_adv"} => Len(predictions) = num_images
        /\ pc = "store_adv" => Len(predictions_adv) = num_images
        /\ ScoresProduced =>
              /\ Len(uncertainty_results) = num_images
              /\ Len(uncertainty_results_adv) = num_images
              /\ CleanComputed <= num_images
              /\ AdvComputed <= num_images

\* C11 witness: the generator was handed two images and returned one, and
\* the run of two passes has ended with one score for each batch.
C11_FewerReturned ==
    /\ pc = "done"
    /\ L = 2
    /\ Len(predict_calls[1].input) = 2
    /\ Len(x_images_adv) = 1
    /\ Len(uncertainty_results) = 1

\* the classes of u and of v are in the same rank order
SameRank(u, v) ==
    \A c \in 1..Len(u) : \A d \in 1..Len(u) :
        (ToGrid(u[c]) < ToGrid(u[d])) <=> (ToGrid(v[c]) < ToGrid(v[d]))

\* sets of L probability vectors got from p by moving the magnitudes of
\* every vector of p (equal vectors alike) by at most one grid step and
\* keeping its rank order
SameRankSets(p) ==
    LET firsts == {ToGrid(p[l][1]) : l \in 1..Len(p)}
        scalings == {f \in [firsts -> 0..Grid] :
                        /\ \A k \in firsts : f[k] \in {k - 1, k, k + 1}
                        /\ \E k \in firsts : f[k] # k
                        /\ \A k \in firsts :
                              SameRank(ProbVector(k), ProbVector(f[k]))}
    IN {[l \in 1..Len(p) |-> ProbVector(f[ToGrid(p[l][1])])] : f \in scalings}

\* no two classes of a vector of p have the same probability
StrictlyRanked(p) ==
    \A l \in 1..Len(p) : \A c \in 1..Len(p[l]) : \A d \in 1..Len(p[l]) :
        c # d => p[l][c] # p[l][d]

\* C12: the reduction is not scale invariant: for L strictly ranked vectors
\* of one image that are not all identical there is a set of L probability
\* vectors with the same rank order of the classes in every vector, other
\* magnitudes and a distinct score.
C12_NotScaleInvariant ==
    \A r \in ComputedScores :
        ~Identical(r.vectors) /\ StrictlyRanked(r.vectors) =>
            \E q \in SameRankSets(r.vectors) :
                /\ uncertainty(q) # r.score
                /\ RefNum(q) # RefNum(r.vectors)
                /\ \A l \in 1..Len(q) : IsProbabilityVector(q[l])

\* C12 witness: a score was computed from three strictly ranked vectors,
\* not all identical, and a set of the same rank order and other magnitudes
\* has another score.
C12_SameRankOtherScore ==
    \E r \in ComputedScores :
        /\ Len(r.vectors) = 3
        /\ ~Identical(r.vectors)
        /\ StrictlyRanked(r.vectors)
        /\ \E q \in SameRankSets(r.vectors) : uncertainty(q) # r.score

\* a slice of a tensor as np.zeros left it
FreshSlice == [j \in 1..num_images |-> np_zeros_1d(num_classes)]

\* C13: the prediction tensors are created all zeros and are fully
\* populated, all L passes written for all N images, before uncertainty is
\* first called: during the sampling loop the slices of the passes to come
\* are still zeros, and from the end of the loop on every slice holds the
\* output of its pass, so no score is computed from a slot no pass wrote.
C13_PopulatedBeforeReduction ==
    /\ Allocated =>
          /\ Len(predictions_matrix) = L
          /\ Len(predictions_matrix_adv) = L
          /\ \A l \in (CleanStored + 1)..L : predictions_matrix[l] = FreshSlice
          /\ \A l \in (AdvStored + 1)..L : predictions_matrix_adv[l] = FreshSlice
    /\ pc \in {"predict", "predict_adv", "store", "store_adv", "raised"} =>
          /\ CleanComputed = 0
          /\ AdvComputed = 0
    /\ pc \in {"allocate_results", "reduce", "reduce_adv", "done"} =>
          /\ Len(CleanCalls) = L
          /\ Len(AdvCalls) = L
          /\ \A l \in 1..L :
                /\ predictions_matrix[l] = CleanCalls[l].output
                /\ predictions_matrix_adv[l] = AdvCalls[l].output
                /\ \A j \in 1..num_images :
                      /\ predictions_matrix[l][j] # np_zeros_1d(num_classes)
                      /\ predictions_matrix_adv[l][j] # np_zeros_1d(num_classes)
    /\ \A r \in ComputedScores :
          /\ Len(r.vectors) = L
          /\ \A l \in 1..L : r.vectors[l] # np_zeros_1d(num_classes)

\* C13 witness: uncertainty has just been called for the first time, on the
\* first image of a clean tensor of two passes over two images.
C13_FirstReduction ==
    /\ pc = "reduce_adv"
    /\ i = 0
    /\ L = 2
    /\ num_images = 2
    /\ CleanComputed = 1

\* C14: after allocation every (pass, image) slot of a tensor is written
\* exactly once: a store writes the whole slice of its own pass, whose index
\* is the number of predictor calls made for that tensor, that slice was
\* still as np.zeros left it, every other slice and the other tensor keep
\* their values, and no other step changes a tensor.
C14_WriteOnce ==
    [][/\ pc = "store" =>
             /\ i + 1 = Len(CleanCalls)
             /\ predictions_matrix[i + 1] = FreshSlice
             /\ predictions_matrix'[i + 1] = CleanCalls[i + 1].output
             /\ \A l \in 1..L \ {i + 1} :
                   predictions_matrix'[l] = predictions_matrix[l]
             /\ predictions_matrix_adv' = predictions_matrix_adv
       /\ pc = "store_adv" =>
             /\ i + 1 = Len(AdvCalls)
             /\ predictions_matrix_adv[i + 1] = FreshSlice
             /\ predictions_matrix_adv'[i + 1] = AdvCalls[i + 1].output
             /\ \A l \in 1..L \ {i + 1} :
                   predictions_matrix_adv'[l] = predictions_matrix_adv[l]
             /\ predictions_matrix' = predictions_matrix
       /\ Allocated /\ pc \notin {"store", "store_adv"} =>
             /\ predictions_matrix' = predictions_matrix
             /\ predictions_matrix_adv' = predictions_matrix_adv]_vars

\* C14 witness: the second pass has written its slice of the clean tensor
\* and the slice of the first pass still holds what the first pass wrote.
C14_SecondPassStored ==
    /\ pc = "store_adv"
    /\ i = 1
    /\ L = 2
    /\ num_images = 2
    /\ predictions_matrix[1] = CleanCalls[1].output
    /\ predictions_matrix[2] = CleanCalls[2].output
    /\ predictions_matrix[1] # predictions_matrix[2]

IsGenerateCall(c) == c.site = "generate"
\* the model.predict call whose result is handed to the generator
GenerateCalls == SelectSeq(predict_calls, IsGenerateCall)

\* C15 (as claimed): the predictions handed to the adversarial generator are
\* the deterministic predictions of the model: they are what the network
\* returns with dropout idle, and evaluating the model again on the same
\* batch, under whatever mask the call can draw, returns the same values.
C15_GeneratorGetsDeterministicPredictions ==
    \A k \in 1..Len(GenerateCalls) :
        LET c == GenerateCalls[k]
        IN /\ c.output = Predict(c.input, "keep")
           /\ \A mask \in DropoutMasks : Predict(c.input, mask) = c.output

\* C16: the score of image i is a function of the slice [:, i] of the tensor
\* of its own batch only: the step that computes it writes uncertainty of
\* that slice to entry i of that batch's score sequence, leaves every other
\* entry of both score sequences and both tensors as they were, and the
\* score equals every score already computed, for either batch, from an
\* equal slice, whatever the other vectors of the two tensors are.
C16_ScoreOfItsOwnSlice ==
    [][/\ pc = "reduce" =>
             /\ uncertainty_results'[i + 1] =
                   uncertainty(Column(predictions_matrix, i))
             /\ \A j \in 1..num_images \ {i + 1} :
                   uncertainty_results'[j] = uncertainty_results[j]
             /\ uncertainty_results_adv' = uncertainty_results_adv
             /\ \A j \in 1..i :
                   /\ Column(predictions_matrix, j - 1)
                         = Column(predictions_matrix, i)
                      => uncertainty_results'[j] = uncertainty_results'[i + 1]
                   /\ Column(predictions_matrix_adv, j - 1)
                         = Column(predictions_matrix, i)
                      => uncertainty_results_adv'[j]
                            = uncertainty_results'[i + 1]
       /\ pc = "reduce_adv" =>
             /\ uncertainty_results_adv'[i + 1] =
                   uncertainty(Column(predictions_matrix_adv, i))
             /\ \A j \in 1..num_images \ {i + 1} :
                   uncertainty_results_adv'[j] = uncertainty_results_adv[j]
             /\ uncertainty_results' = uncertainty_results
             /\ \A j \in 1..i :
                   Column(predictions_matrix_adv, j - 1)
                      = Column(predictions_matrix_adv, i)
                   => uncertainty_results_adv'[j]
                         = uncertainty_results_adv'[i + 1]
             /\ \A j \in 1..(i + 1) :
                   Column(predictions_matrix, j - 1)
                      = Column(predictions_matrix_adv, i)
                   => uncertainty_results'[j] = uncertainty_results_adv'[i + 1]
       /\ pc \in {"reduce", "reduce_adv"} =>
             /\ predictions_matrix' = predictions_matrix
             /\ predictions_matrix_adv' = predictions_matrix_adv]_vars

\* C16 witness: the score of the second clean image has been written; the
\* score of the first is still the one of its own slice, a different slice;
\* the first adversarial image has the same slice as the second clean one,
\* in a tensor that differs, and has the same score; the second adversarial
\* score is not written yet.
C16_SecondScoreWritten ==
    /\ pc = "reduce_adv"
    /\ i = 1
    /\ L = 2
    /\ num_images = 2
    /\ uncertainty_results[2] = uncertainty(Column(predictions_matrix, 1))
    /\ uncertainty_results[1] = uncertainty(Column(predictions_matrix, 0))
    /\ Column(predictions_matrix, 0) # Column(predictions_matrix, 1)
    /\ IsPositive(uncertainty_results[2])
    /\ Column(predictions_matrix_adv, 0) = Column(predictions_matrix, 1)
    /\ predictions_matrix_adv # predictions_matrix
    /\ uncertainty_results_adv[1] = uncertainty_results[2]
    /\ uncertainty_results_adv[2] = Zero

====
